---- MODULE Spec2Model ----
(***************************************************************************)
(* Model of pcc-gitlab-registries.py: one run of the command line tool.   *)
(* The run checks the input path, resolves the configuration, logs in and *)
(* then either lists credentials and collections or registers every       *)
(* repository of the input file.                                           *)
(***************************************************************************)
EXTENDS Integers, Sequences, FiniteSets, TLC

VARIABLES
    pc,          \* position of the run in __main__
    args,        \* the parsed command line (module-level args)
    fs,          \* what os.path.isfile answers for the -j path
    envfile,     \* the .env file: whether it exists and the keys it sets
    prompts,     \* the values asked for on the terminal, in order
    url, access_key, secret_key,   \* locals of __main__ (the configuration)
    token,       \* local of __main__
    netlog,      \* every HTTP request issued, in order
    r,           \* the response of the last HTTP request
    stdout,      \* the lines printed
    repositories,\* the content of the input file as json.load returned it
    repo_list,   \* the list read_repository_list returned
    reads,       \* how many times the input file was opened
    idx          \* position of the loop of add_repositories

vars == <<pc, args, fs, envfile, prompts, url, access_key, secret_key, token,
          netlog, r, stdout, repositories, repo_list, reads, idx>>

\* ------------------------------------------------------------------ bounds
MaxRepos == 3
MaxCreds == 2
MaxColls == 2

\* ------------------------------------------------------------ JSON values
None == [t |-> "null"]
Str(s) == [t |-> "str", v |-> s]
Bool(b) == [t |-> "bool", v |-> b]

\* Python's truth value of a JSON value
Truthy(x) ==
    CASE x.t = "null" -> FALSE
      [] x.t = "bool" -> x.v
      [] x.t = "str"  -> x.v # ""

\* dict.get(key): the value, or None when the key is absent
Get(d, k) == IF k \in DOMAIN d THEN d[k] ELSE None

\* '{}'.format(x)
Format(x) ==
    CASE x.t = "null" -> "None"
      [] x.t = "bool" -> IF x.v THEN "True" ELSE "False"
      [] x.t = "str"  -> x.v

SeqsUpTo(S, n) == UNION {[1..k -> S] : k \in 0..n}

\* ------------------------------------------------------------------ inputs
Unset == "unset"
NoResponse == [status |-> "none"]

EnvKeys == {"COMPUTE_API_ENDPOINT", "ACCESS_KEY", "SECRET_KEY"}
FileValue(k) ==
    CASE k = "COMPUTE_API_ENDPOINT" -> "file.host"
      [] k = "ACCESS_KEY" -> "file-access"
      [] k = "SECRET_KEY" -> "file-secret"
EnvFiles == {f \in [exists : BOOLEAN, keys : SUBSET EnvKeys] :
                 ~f.exists => f.keys = {}}
TypedUrls == {"typed.host"}
TypedAccess == {"typed-access"}
TypedSecret == {"typed-secret"}

\* the -r, -c and -s options of the command lines tried; without -c the
\* credentials are Python's None, without -r and -s the defaults
Options == {[registry |-> "registry.gitlab.com", credentials |-> "None", scope |-> "All"],
            [registry |-> "registry.gitlab.com", credentials |-> "cred1", scope |-> "All"],
            [registry |-> "registry.gitlab.com", credentials |-> "cred1", scope |-> "scope1"],
            [registry |-> "registry.example.com", credentials |-> "cred1", scope |-> "scope1"]}
Tokens == {"T1"}

RepoElements == {[no_path |-> Bool(TRUE)], [path |-> Str("")],
                 [path |-> Str("a/b")], [path |-> Str("c/d")]}
CredEntries == {[_id |-> Str("id1")], [_id |-> Str("id2"), external |-> Bool(FALSE)],
                [_id |-> Str("id1"), external |-> Bool(TRUE)],
                [_id |-> Str("id2"), external |-> Bool(TRUE)]}
CollEntries == {[color |-> Str("red")], [name |-> Str("")],
                [name |-> Str("n1")], [name |-> Str("n2")]}

\* ------------------------------------------------------------ initial state
\* args after parser.parse_args(); fs.given and fs.cwd are what isfile answers
\* for the -j path as typed and for os.getcwd() + '/' + that path.  A relative
\* path is looked up under the working directory, so both answers agree.
Init ==
    /\ pc = "check_path"
    /\ args \in {[list |-> l, registry |-> o.registry, json |-> "given",
                  credentials |-> o.credentials, scope |-> o.scope] :
                     l \in BOOLEAN, o \in Options}
    /\ fs \in {f \in [abs : BOOLEAN, given : BOOLEAN, cwd : BOOLEAN] :
                   ~f.abs => (f.given = f.cwd)}
    /\ envfile \in EnvFiles
    /\ prompts = <<>>
    /\ url = Unset /\ access_key = Unset /\ secret_key = Unset
    /\ token = Str(Unset)
    /\ netlog = <<>>
    /\ r = NoResponse
    /\ stdout = <<>>
    /\ repositories = <<>>
    /\ repo_list = <<>>
    /\ reads = 0
    /\ idx = 0

\* ---------------------------------------------------------------- check_path
IsFile(p) == IF p = "given" THEN fs.given ELSE fs.cwd

\* the value of args.json after the first statement of check_path
ResolvedJson(p) == IF ~(IsFile(p) /\ fs.abs) THEN "cwd" ELSE p

PathMessage == "The path specified for the json file does not exist"

\* faulty variant: the check prints its message and goes on
AfterCheck_NoExit(p) == "get_env_variables"

\* sys.exit() when the resolved path is no file
AfterCheck(p) == IF ~IsFile(p) THEN "exited" ELSE "get_env_variables"

check_path ==
    /\ pc = "check_path"
    /\ args' = [args EXCEPT !.json = ResolvedJson(args.json)]
    /\ stdout' = IF ~IsFile(args'.json) THEN Append(stdout, PathMessage) ELSE stdout
    /\ pc' = AfterCheck(args'.json)
    /\ UNCHANGED <<fs, envfile, prompts, url, access_key, secret_key, token,
                   netlog, r, repositories, repo_list, reads, idx>>

\* --------------------------------------------------------- get_env_variables
check_env == envfile.exists

\* dotenv_values(".env")
dotenv_values == [k \in envfile.keys |-> FileValue(k)]

\* one of the three values: from the file when its key is there, else typed
EnvValue(key, typed) ==
    IF check_env /\ key \in DOMAIN dotenv_values THEN dotenv_values[key] ELSE typed

\* faulty variant: every test looks for the same key
EnvAsked_WrongKey(key) == ~(check_env /\ "ACCESS_KEY" \in DOMAIN dotenv_values)

\* whether the value of key is asked for
EnvAsked(key) == ~(check_env /\ key \in DOMAIN dotenv_values)

AskedFor(key) == IF EnvAsked(key) THEN <<key>> ELSE <<>>

get_env_variables ==
    /\ pc = "get_env_variables"
    /\ \E tu \in TypedUrls, ta \in TypedAccess, ts \in TypedSecret :
          /\ url' = EnvValue("COMPUTE_API_ENDPOINT", tu)
          /\ access_key' = EnvValue("ACCESS_KEY", ta)
          /\ secret_key' = EnvValue("SECRET_KEY", ts)
    /\ prompts' = prompts \o AskedFor("COMPUTE_API_ENDPOINT")
                          \o AskedFor("ACCESS_KEY") \o AskedFor("SECRET_KEY")
    /\ pc' = "auth_get_token"
    /\ UNCHANGED <<args, fs, envfile, token, netlog, r, stdout, repositories,
                   repo_list, reads, idx>>

\* ---------------------------------------------------------------- API client
NoData == [empty |-> TRUE]
NoAuth == <<>>

Request(method, host, endpoint, auth, data) ==
    [method |-> method, host |-> host, endpoint |-> endpoint,
     auth |-> auth, data |-> data]

Bearer(tok) == <<"Bearer", Format(tok)>>

api_get(host, endpoint, tok) == Request("GET", host, endpoint, Bearer(tok), NoData)

\* faulty variant: the Authorization header is left out
api_post_NoAuthorization(host, endpoint, tok, data) ==
    Request("POST", host, endpoint, NoAuth, data)

api_post(host, endpoint, tok, data) ==
    Request("POST", host, endpoint, Bearer(tok), data)

\* ------------------------------------------------------------ auth_get_token
AuthRequest(host, user, password) ==
    Request("POST", host, "authenticate", NoAuth,
            [username |-> user, password |-> password])

AuthBodies == {[token |-> Str(t)] : t \in Tokens} \cup {[err |-> Str("denied")]}

\* faulty variant: the test of args.list is inverted
ModeAfterLogin_Swapped ==
    IF ~args.list THEN "list_basic_credentials" ELSE "add_repositories"

\* after the login __main__ takes the branch of args.list
ModeAfterLogin == IF args.list THEN "list_basic_credentials" ELSE "add_repositories"

auth_get_token ==
    /\ pc = "auth_get_token"
    /\ netlog' = Append(netlog, AuthRequest(url, access_key, secret_key))
    /\ \/ \* requests.post raises
          /\ r' = [status |-> "neterr"]
          /\ pc' = "aborted"
          /\ UNCHANGED token
       \/ \* the body is no JSON: r.json() raises
          /\ r' = [status |-> "non2xx", body |-> "notjson"]
          /\ pc' = "aborted"
          /\ UNCHANGED token
       \/ \E b \in AuthBodies :
          /\ r' = [status |-> IF "token" \in DOMAIN b THEN "2xx" ELSE "non2xx",
                   body |-> b]
          /\ token' = Get(b, "token")
          /\ pc' = ModeAfterLogin
    /\ UNCHANGED <<args, fs, envfile, prompts, url, access_key, secret_key,
                   stdout, repositories, repo_list, reads, idx>>

\* ------------------------------------------------------------ directory lister
get_credentials(host, tok) == api_get(host, "credentials", tok)

get_collections(host, tok) == api_get(host, "collections", tok)

\* faulty variant: the test of external is inverted
IsBasic_Inverted(i) == Truthy(Get(i, "external"))

\* the entries list_basic_credentials prints an identifier for
IsBasic(i) == ~Truthy(Get(i, "external"))

\* the entries list_collections prints a name for
IsNamed(i) == Truthy(Get(i, "name"))

RECURSIVE BasicIds(_)
BasicIds(body) ==
    IF body = <<>> THEN <<>>
    ELSE (IF IsBasic(Head(body)) THEN <<Format(Head(body)["_id"])>> ELSE <<>>)
         \o BasicIds(Tail(body))

RECURSIVE CollectionNames(_)
CollectionNames(body) ==
    IF body = <<>> THEN <<>>
    ELSE (IF IsNamed(Head(body)) THEN <<Format(Head(body)["name"])>> ELSE <<>>)
         \o CollectionNames(Tail(body))

\* faulty variant: list mode falls through to the registrar
AfterListing_FallThrough == "add_repositories"

\* sys.exit() of __main__ after the two listings
AfterListing == "done"

ErrorBody == [err |-> Str("unauthorized")]

list_basic_credentials ==
    /\ pc = "list_basic_credentials"
    /\ netlog' = Append(netlog, get_credentials(url, token))
    /\ \/ \* requests.get raises
          /\ r' = [status |-> "neterr"]
          /\ stdout' = stdout \o <<"Credentials">>
          /\ pc' = "aborted"
       \/ \* an error object instead of the array: the loop over it raises
          /\ r' = [status |-> "non2xx", body |-> ErrorBody]
          /\ stdout' = stdout \o <<"Credentials">>
          /\ pc' = "aborted"
       \/ \E body \in SeqsUpTo(CredEntries, MaxCreds) :
          /\ r' = [status |-> "2xx", body |-> body]
          /\ stdout' = stdout \o <<"Credentials">> \o BasicIds(body)
          /\ pc' = "list_collections"
    /\ UNCHANGED <<args, fs, envfile, prompts, url, access_key, secret_key,
                   token, repositories, repo_list, reads, idx>>

list_collections ==
    /\ pc = "list_collections"
    /\ netlog' = Append(netlog, get_collections(url, token))
    /\ \/ /\ r' = [status |-> "neterr"]
          /\ stdout' = stdout \o <<"", "Collections/Scope">>
          /\ pc' = "aborted"
       \/ /\ r' = [status |-> "non2xx", body |-> ErrorBody]
          /\ stdout' = stdout \o <<"", "Collections/Scope">>
          /\ pc' = "aborted"
       \/ \E body \in SeqsUpTo(CollEntries, MaxColls) :
          /\ r' = [status |-> "2xx", body |-> body]
          /\ stdout' = stdout \o <<"", "Collections/Scope">> \o CollectionNames(body)
          /\ pc' = AfterListing
    /\ UNCHANGED <<args, fs, envfile, prompts, url, access_key, secret_key,
                   token, repositories, repo_list, reads, idx>>

\* --------------------------------------------------------- repository registrar
\* faulty variant: the key is tested, not its value
HasPath_KeyOnly(i) == "path" \in DOMAIN i

\* the elements read_repository_list keeps
HasPath(i) == Truthy(Get(i, "path"))

RECURSIVE PathsOf(_)
PathsOf(elems) ==
    IF elems = <<>> THEN <<>>
    ELSE (IF HasPath(Head(elems)) THEN <<Head(elems)["path"]>> ELSE <<>>)
         \o PathsOf(Tail(elems))

\* faulty variant: the default scope is sent whatever -s says
RegistryData_DefaultScope(registry, repository, credentials, collection) ==
    [version |-> "2", registry |-> registry, repository |-> repository,
     tag |-> "", os |-> "linux", cap |-> 5, hostname |-> "", scanners |-> 2,
     collections |-> <<"All">>]

\* r_data of set_registry
RegistryData(registry, repository, credentials, collection) ==
    [version |-> "2", registry |-> registry, repository |-> repository,
     tag |-> "", os |-> "linux", cap |-> 5, hostname |-> "", scanners |-> 2,
     collections |-> <<collection>>]

set_registry(host, tok, registry, repository, credentials, collection) ==
    api_post(host, "settings/registry", tok,
             RegistryData(registry, repository, credentials, collection))

\* add_repositories up to its first request: read_repository_list
read_repository_list ==
    /\ pc = "add_repositories"
    /\ reads' = reads + 1
    /\ \/ \* json.load raises
          /\ repositories' = <<>>
          /\ repo_list' = <<>>
          /\ idx' = idx
          /\ pc' = "aborted"
       \/ \E elems \in SeqsUpTo(RepoElements, MaxRepos) :
          /\ repositories' = elems
          /\ repo_list' = PathsOf(elems)
          /\ idx' = 1
          /\ pc' = IF PathsOf(elems) = <<>> THEN "done" ELSE "set_registry"
    /\ UNCHANGED <<args, fs, envfile, prompts, url, access_key, secret_key,
                   token, netlog, r, stdout>>

\* faulty variant: a failed request is swallowed and the loop goes on
AfterRequest_Swallow(status, i) ==
    IF i = Len(repo_list) THEN "done" ELSE "set_registry"

\* where the loop of add_repositories goes after the request for repo_list[i]
AfterRequest(status, i) ==
    IF status = "neterr" THEN "aborted"
    ELSE IF i = Len(repo_list) THEN "done" ELSE "set_registry"

\* one turn of the loop of add_repositories
add_repository ==
    /\ pc = "set_registry"
    /\ idx <= Len(repo_list)
    /\ netlog' = Append(netlog,
                        set_registry(url, token, args.registry, repo_list[idx],
                                     args.credentials, args.scope))
    /\ \E status \in {"2xx", "non2xx", "neterr"} :
          /\ r' = [status |-> status]
          /\ pc' = AfterRequest(status, idx)
    /\ idx' = idx + 1
    /\ UNCHANGED <<args, fs, envfile, prompts, url, access_key, secret_key,
                   token, stdout, repositories, repo_list, reads>>

Next ==
    \/ check_path
    \/ get_env_variables
    \/ auth_get_token
    \/ list_basic_credentials
    \/ list_collections
    \/ read_repository_list
    \/ add_repository

Spec == Init /\ [][Next]_vars

\* ------------------------------------------------------------------- claims
IsRegistryPost(q) == q.method = "POST" /\ q.endpoint = "settings/registry"

RegistryPosts == SelectSeq(netlog, IsRegistryPost)

Endpoints == [i \in 1..Len(netlog) |-> netlog[i].endpoint]

\* the j-th smallest member of a set of indexes
Nth(S, j) == CHOOSE i \in S : Cardinality({k \in S : k <= i}) = j

\* the requests sent so far are for the elements at the indexes S, in order
PostsFollow(S) ==
    /\ Len(RegistryPosts) <= Cardinality(S)
    /\ \A j \in 1..Len(RegistryPosts) :
          RegistryPosts[j].data.repository = repositories[Nth(S, j)].path

WithPathField == {i \in 1..Len(repositories) : "path" \in DOMAIN repositories[i]}

WithNonEmptyPath ==
    {i \in WithPathField :
        repositories[i].path.t = "str" /\ repositories[i].path.v # ""}

\* C1 (as stated): in register mode exactly one POST to settings/registry is
\* issued for every element that has a path field, in the order of the array,
\* and none for the others; a run that ends normally has issued all of them.
C1_OnePostPerPathField ==
    ~args.list =>
        /\ PostsFollow(WithPathField)
        /\ pc = "done" => Len(RegistryPosts) = Cardinality(WithPathField)

\* C1 (amended): in register mode exactly one POST to settings/registry is
\* issued for every element whose path is present and not empty, in the order
\* of the array, and none for the others; a run that ends normally has issued
\* all of them (zero for an empty array).
C1_OnePostPerNonEmptyPath ==
    ~args.list =>
        /\ PostsFollow(WithNonEmptyPath)
        /\ pc = "done" => Len(RegistryPosts) = Cardinality(WithNonEmptyPath)

C1_Witness ==
    /\ pc = "done" /\ ~args.list
    /\ Len(repositories) = 3
    /\ WithNonEmptyPath = {1, 2}
    /\ Len(RegistryPosts) = 2
    /\ RegistryPosts[1].data.repository = Str("a/b")
    /\ RegistryPosts[2].data.repository = Str("c/d")

\* C2: a run whose -j path names no file, as typed or under the working
\* directory, prints the message and ends in check_path with no request sent
\* and no value asked for.
C2_ExitBeforeNetwork ==
    (~fs.given /\ ~fs.cwd /\ pc # "check_path") =>
        /\ pc = "exited"
        /\ stdout = <<PathMessage>>
        /\ netlog = <<>>
        /\ prompts = <<>>
        /\ url = Unset /\ access_key = Unset /\ secret_key = Unset

C2_Witness ==
    pc = "exited" /\ ~fs.given /\ ~fs.cwd /\ fs.abs /\ ~args.list /\ ~envfile.exists

BodyFields == {"version", "registry", "repository", "tag", "os", "cap",
               "hostname", "scanners", "collections"}

\* C3: every registration request carries the credential chosen with -c: some
\* field of its body, beside the fields of the fixed shape, holds it.
C3_CredentialCarried ==
    args.credentials # "None" =>
        \A j \in 1..Len(RegistryPosts) :
            \E f \in DOMAIN RegistryPosts[j].data \ BodyFields :
                RegistryPosts[j].data[f] = args.credentials

\* C4: with a secrets file, the values asked for are exactly those of the keys
\* missing from the file, each once, and every value whose key is in the file
\* is the file's value.
C4_PromptsAreMissingKeys ==
    (envfile.exists /\ pc \notin {"check_path", "exited", "get_env_variables"}) =>
        /\ {prompts[i] : i \in 1..Len(prompts)} = EnvKeys \ envfile.keys
        /\ Len(prompts) = Cardinality(EnvKeys \ envfile.keys)
        /\ "COMPUTE_API_ENDPOINT" \in envfile.keys => url = "file.host"
        /\ "ACCESS_KEY" \in envfile.keys => access_key = "file-access"
        /\ "SECRET_KEY" \in envfile.keys => secret_key = "file-secret"

C4_Witness ==
    /\ pc = "auth_get_token"
    /\ envfile.exists /\ envfile.keys = {"COMPUTE_API_ENDPOINT", "SECRET_KEY"}
    /\ prompts = <<"ACCESS_KEY">>
    /\ url = "file.host" /\ secret_key = "file-secret"

\* C5: the three configuration values are resolved before the first request;
\* the first request is the only authenticate request and carries them; every
\* later request goes to the same host with the token that login returned.
C5_ResolvedThenOneLogin ==
    /\ netlog # <<>> =>
          /\ url # Unset /\ access_key # Unset /\ secret_key # Unset
          /\ netlog[1].endpoint = "authenticate"
          /\ netlog[1].host = url
          /\ netlog[1].data = [username |-> access_key, password |-> secret_key]
    /\ \A i \in 2..Len(netlog) :
          /\ netlog[i].endpoint # "authenticate"
          /\ netlog[i].host = netlog[1].host
          /\ netlog[i].auth = <<"Bearer", Format(token)>>
    /\ (Len(netlog) = 1 /\ pc \notin {"auth_get_token", "aborted"}) =>
          token = (IF "token" \in DOMAIN r.body THEN r.body.token ELSE None)
    /\ pc \in {"list_basic_credentials", "list_collections", "add_repositories",
               "set_registry", "done"} =>
          Cardinality({i \in 1..Len(netlog) : netlog[i].endpoint = "authenticate"}) = 1

C5_Witness ==
    /\ pc = "done" /\ ~args.list
    /\ Len(netlog) = 3
    /\ token = Str("T1")
    /\ url = "typed.host"

\* C6: every registration body has the fixed fields, collections is the list of
\* the one configured scope, and registry and collections are the same in all
\* the requests of a run.
C6_FixedShape ==
    /\ \A j \in 1..Len(RegistryPosts) :
          LET d == RegistryPosts[j].data IN
          /\ d.version = "2" /\ d.tag = "" /\ d.os = "linux" /\ d.cap = 5
          /\ d.hostname = "" /\ d.scanners = 2
          /\ d.collections = <<args.scope>>
          /\ d.registry = args.registry
    /\ \A j, k \in 1..Len(RegistryPosts) :
          /\ RegistryPosts[j].data.registry = RegistryPosts[k].data.registry
          /\ RegistryPosts[j].data.collections = RegistryPosts[k].data.collections

C6_Witness ==
    /\ Len(RegistryPosts) = 2
    /\ RegistryPosts[1].data.repository # RegistryPosts[2].data.repository
    /\ args.scope = "scope1"

LastIsRegistryPost == netlog # <<>> /\ IsRegistryPost(netlog[Len(netlog)])

\* C7 (as stated): a registration request that fails, by a network failure or
\* by a response that is not 2xx, aborts the run.
C7_AnyFailureAborts ==
    (LastIsRegistryPost /\ r.status \in {"neterr", "non2xx"}) => pc = "aborted"

\* C7 (amended): a registration request that fails by a network failure aborts
\* the run, and an aborted run takes no further step; a response that is not
\* 2xx is not looked at, and the loop goes on to the next repository.
C7_NetworkFailureAborts ==
    [][/\ pc = "aborted" => UNCHANGED vars
       /\ (pc = "set_registry" /\ r'.status = "neterr") => pc' = "aborted"
       /\ (pc = "set_registry" /\ r'.status = "non2xx") =>
             /\ pc' = (IF idx = Len(repo_list) THEN "done" ELSE "set_registry")
             /\ idx' = idx + 1]_vars

C7_Witness ==
    /\ pc = "aborted" /\ LastIsRegistryPost /\ r.status = "neterr"
    /\ Len(RegistryPosts) = 2 /\ Len(repo_list) = 3

\* the values of field of the entries of body at the indexes S, in order
LinesOf(body, S, field) ==
    [j \in 1..Cardinality(S) |-> body[Nth(S, j)][field].v]

NotExternal(body) ==
    {i \in 1..Len(body) :
        "external" \notin DOMAIN body[i] \/ body[i].external \in {None, Bool(FALSE)}}

NonEmptyName(body) ==
    {i \in 1..Len(body) :
        "name" \in DOMAIN body[i] /\ body[i].name \notin {None, Str("")}}

\* C8: in list mode the credentials listing prints, after its header, the _id
\* of exactly the entries whose external is false or absent, and the
\* collections listing prints, after its header, the name of exactly the
\* entries with a non-empty name, both in the order of the response.
C8_ListingsFilterInOrder ==
    [][/\ (pc = "list_basic_credentials" /\ pc' = "list_collections") =>
             stdout' = stdout \o <<"Credentials">>
                              \o LinesOf(r'.body, NotExternal(r'.body), "_id")
       /\ (pc = "list_collections" /\ pc' = "done") =>
             stdout' = stdout \o <<"", "Collections/Scope">>
                              \o LinesOf(r'.body, NonEmptyName(r'.body), "name")]_vars

C8_Witness ==
    /\ pc = "done" /\ args.list
    /\ stdout = <<"Credentials", "id2", "id1", "", "Collections/Scope", "n2">>
    /\ Len(r.body) = 2 /\ NonEmptyName(r.body) = {2}

\* C9 (as stated): every run that ends normally, in list mode or in register
\* mode, has read the input file exactly once.
C9_ReadOnceInEveryRun == pc = "done" => reads = 1

\* C9 (amended): the input file is read at most once in a run: exactly once in
\* register mode, when the registrar starts after the login, and never in list
\* mode, where only its existence is checked; the list read from it is never
\* changed afterwards.
C9_ReadOnceInRegisterMode ==
    [][/\ reads' <= 1
       /\ args'.list => reads' = 0
       /\ (~args'.list /\ pc' \in {"set_registry", "done"}) => reads' = 1
       /\ reads = 1 => /\ repo_list' = repo_list
                       /\ repositories' = repositories]_vars

C9_Witness ==
    /\ pc = "done" /\ ~args.list /\ reads = 1
    /\ Len(repo_list) = 2 /\ Len(RegistryPosts) = 2

IsPrefix(s, t) == Len(s) <= Len(t) /\ \A i \in 1..Len(s) : s[i] = t[i]

\* C10: the path check comes first, then the configuration, then the login;
\* in list mode the requests are authenticate, GET credentials, GET
\* collections, in that order, and the run ends without a POST to
\* settings/registry; in register mode the requests are authenticate and then
\* only POSTs to settings/registry, one per entry of the list, and the run ends
\* after the last.
C10_StepOrder ==
    /\ url # Unset => (pc \notin {"check_path", "exited"} /\ IsFile(args.json))
    /\ netlog # <<>> => url # Unset
    /\ args.list =>
          /\ IsPrefix(Endpoints, <<"authenticate", "credentials", "collections">>)
          /\ \A i \in 2..Len(netlog) : netlog[i].method = "GET"
          /\ pc = "done" => Len(netlog) = 3
    /\ ~args.list =>
          /\ \A i \in 1..Len(netlog) :
                netlog[i].endpoint = (IF i = 1 THEN "authenticate" ELSE "settings/registry")
          /\ \A i \in 1..Len(netlog) : netlog[i].method = "POST"
          /\ pc = "done" => Len(netlog) = 1 + Len(repo_list)
          /\ pc = "set_registry" => Len(netlog) = idx /\ idx <= Len(repo_list)

C10_Witness ==
    /\ pc = "done" /\ args.list
    /\ Endpoints = <<"authenticate", "credentials", "collections">>
    /\ RegistryPosts = <<>>

====
